---- MODULE Spec2Model ----
(***************************************************************************)
(* Story correlation engine of News_Feeder.                                *)
(*                                                                         *)
(* Two entry points are modelled:                                          *)
(*   - src/src/processors/story_correlator.py  (entity/regex mode):        *)
(*     extract_entities, calculate_story_similarity, find_story_clusters,  *)
(*     _split_large_cluster, identify_connections;                         *)
(*   - src/src/correlators/story_correlator.py (general-purpose mode):     *)
(*     find_related_stories, _find_relationships,                          *)
(*     _calculate_story_similarity, _create_clusters, with the feature     *)
(*     extraction of src/src/processors/nlp_processor.py.                  *)
(*                                                                         *)
(* A text is a sequence of tokens: the maximal \w+ runs of the string, in  *)
(* order, with the token "-" standing for a hyphen that joins its two      *)
(* neighbours; two adjacent word tokens are separated by one space.        *)
(* Scores are exact rationals <<numerator, denominator>>; thresholds are   *)
(* given in hundredths.                                                    *)
(***************************************************************************)
EXTENDS Integers, Sequences, FiniteSets, TLC

\* ------------------------------------------------------------------ bounds
MaxStories == 3
MaxClusterSize == 3
MaxHashSeed == 1
MaxCollected == 2

\* ------------------------------------------------------- exact arithmetic
Max(a, b) == IF a >= b THEN a ELSE b
Min(a, b) == IF a <= b THEN a ELSE b

RECURSIVE GCD(_, _)
GCD(a, b) == IF b = 0 THEN a ELSE GCD(b, a % b)
\* a non-negative rational in lowest terms
Reduce(a) == <<a[1] \div GCD(a[2], a[1]), a[2] \div GCD(a[2], a[1])>>

RAdd(a, b) == Reduce(<<a[1] * b[2] + b[1] * a[2], a[2] * b[2]>>)
RMul(a, b) == Reduce(<<a[1] * b[1], a[2] * b[2]>>)
REq(a, b) == a[1] * b[2] = b[1] * a[2]
RLess(a, b) == a[1] * b[2] < b[1] * a[2]
RGeq(a, b) == ~RLess(a, b)
RZero == <<0, 1>>
ROne == <<1, 1>>
\* a threshold given in hundredths, as a rational
Pct(t) == <<t, 100>>

RECURSIVE RSum(_)
RSum(seq) == IF seq = <<>> THEN RZero ELSE RAdd(Head(seq), RSum(Tail(seq)))

\* list.insert(p, x)
InsertAt(seq, p, x) == SubSeq(seq, 1, p) \o <<x>> \o SubSeq(seq, p + 1, Len(seq))

RECURSIVE SeqToSet(_)
SeqToSet(seq) == IF seq = <<>> THEN {} ELSE {Head(seq)} \cup SeqToSet(Tail(seq))

\* ------------------------------------------------------------ str methods
\* str.lower() on the tokens of the model's vocabulary: the tokens with an
\* upper-case letter and their lower-case forms
UpperCased ==
  <<"China", "APT", "Salt", "Typhoon", "US", "Local", "The",
    "Alice", "Bob", "Carol", "Dave", "Erin", "Frank", "Grace", "Heidi",
    "Ivan", "Judy", "Mallory", "Acme", "Corp">>
LowerCased ==
  <<"china", "apt", "salt", "typhoon", "us", "local", "the",
    "alice", "bob", "carol", "dave", "erin", "frank", "grace", "heidi",
    "ivan", "judy", "mallory", "acme", "corp">>
LowerTable ==
  [t \in SeqToSet(UpperCased) |->
     LowerCased[CHOOSE k \in 1..Len(UpperCased) : UpperCased[k] = t]]
Lower(t) == IF t \in DOMAIN LowerTable THEN LowerTable[t] ELSE t

\* str.upper() on the tokens an entity pattern can match
UpperTable ==
  [t \in {"china", "apt", "salt", "typhoon", "us", "phishing", "telecom",
          "rare", "earth", "earths", "ransomware", "attack", "energy",
          "chip", "russia", "exploit", "cisco", "compromise", "sanctions",
          "drone"} |->
     CASE t = "china" -> "CHINA"
       [] t = "apt" -> "APT"
       [] t = "salt" -> "SALT"
       [] t = "typhoon" -> "TYPHOON"
       [] t = "us" -> "US"
       [] t = "phishing" -> "PHISHING"
       [] t = "telecom" -> "TELECOM"
       [] t = "rare" -> "RARE"
       [] t = "earth" -> "EARTH"
       [] t = "earths" -> "EARTHS"
       [] t = "ransomware" -> "RANSOMWARE"
       [] t = "attack" -> "ATTACK"
       [] t = "energy" -> "ENERGY"
       [] t = "chip" -> "CHIP"
       [] t = "russia" -> "RUSSIA"
       [] t = "exploit" -> "EXPLOIT"
       [] t = "cisco" -> "CISCO"
       [] t = "compromise" -> "COMPROMISE"
       [] t = "sanctions" -> "SANCTIONS"
       [] t = "drone" -> "DRONE"]
Upper(t) == IF Lower(t) \in DOMAIN UpperTable THEN UpperTable[Lower(t)] ELSE t

LowerSeq(text) == [k \in 1..Len(text) |-> Lower(text[k])]
UpperSeq(text) == [k \in 1..Len(text) |-> Upper(text[k])]

\* --------------------------------------------- entity/regex mode: extraction
\* The keys of self.entity_patterns, in insertion order.
EntityTypes ==
  <<"countries", "threat_actors", "malware", "vulnerabilities", "techniques",
    "sectors", "tech", "cyber_ops", "supply_chain", "economic", "military">>

\* self.entity_patterns: per entity type the alternatives of the pattern, in
\* the order of the alternation, each as the token sequence it matches under
\* re.IGNORECASE (the alternatives over the model's vocabulary).
entity_patterns ==
  [ty \in SeqToSet(EntityTypes) |->
     CASE ty = "countries" -> << <<"china">>, <<"russia">>, <<"us">> >>
       [] ty = "threat_actors" -> << <<"apt">>, <<"salt", "typhoon">> >>
       [] ty = "malware" -> << <<"ransomware">> >>
       [] ty = "vulnerabilities" -> << <<"exploit">> >>
       [] ty = "techniques" -> << <<"phishing">>, <<"attack">> >>
       [] ty = "sectors" -> << <<"energy">>, <<"telecom">> >>
       [] ty = "tech" -> << <<"cisco">> >>
       [] ty = "cyber_ops" -> << <<"compromise">> >>
       [] ty = "supply_chain" ->
            << <<"chip">>, <<"rare", "earth">>, <<"rare", "earths">>,
               <<"rare", "-", "earth">>, <<"rare", "-", "earths">> >>
       [] ty = "economic" -> << <<"sanctions">> >>
       [] ty = "military" -> << <<"drone">> >>]

\* does alternative alt match the text at position pos
MatchesAt(alt, text, pos) ==
  /\ pos + Len(alt) - 1 <= Len(text)
  /\ \A k \in 1..Len(alt) : Lower(text[pos + k - 1]) = alt[k]

\* the first alternative (in alternation order) that matches at pos, 0 if none
FirstAlt(alts, text, pos) ==
  LET ok == {a \in 1..Len(alts) : MatchesAt(alts[a], text, pos)}
  IN IF ok = {} THEN 0 ELSE CHOOSE a \in ok : \A b \in ok : a <= b

\* re.findall(pattern, text, re.IGNORECASE): the non-overlapping matches,
\* scanning left to right, each as the matched slice of the text
RECURSIVE FindAll(_, _, _)
FindAll(alts, text, pos) ==
  IF pos > Len(text) THEN <<>>
  ELSE LET a == FirstAlt(alts, text, pos)
       IN IF a = 0 THEN FindAll(alts, text, pos + 1)
          ELSE <<SubSeq(text, pos, pos + Len(alts[a]) - 1)>>
               \o FindAll(alts, text, pos + Len(alts[a]))

\* re.sub(r'RARE[\s-]?EARTHS?', 'RARE EARTH', m) on an upper-cased match
RECURSIVE SubRareEarth(_)
SubRareEarth(m) ==
  IF m = <<>> THEN <<>>
  ELSE IF /\ Len(m) >= 2 /\ m[1] = "RARE" /\ m[2] \in {"EARTH", "EARTHS"}
       THEN <<"RARE", "EARTH">> \o SubRareEarth(SubSeq(m, 3, Len(m)))
  ELSE IF /\ Len(m) >= 3 /\ m[1] = "RARE" /\ m[2] = "-"
          /\ m[3] \in {"EARTH", "EARTHS"}
       THEN <<"RARE", "EARTH">> \o SubRareEarth(SubSeq(m, 4, Len(m)))
  ELSE <<Head(m)>> \o SubRareEarth(Tail(m))

\* re.sub(r'[\s-]+', ' ', m).strip(): the tokens joined by single spaces
CollapseSeparators(m) == SelectSeq(m, LAMBDA t : t # "-")

\* the normalisation of one match inside extract_entities
NormalizeMatch(m) == CollapseSeparators(SubRareEarth(UpperSeq(m)))

\* extract_entities: entity type -> set of normalized matches; a type with
\* no match has no key (read below with .get(type, set()))
extract_entities(text) ==
  LET found == [ty \in SeqToSet(EntityTypes) |->
                  {NormalizeMatch(m) :
                     m \in SeqToSet(FindAll(entity_patterns[ty], text, 1))}]
      keys == {ty \in SeqToSet(EntityTypes) : found[ty] # {}}
  IN [ty \in keys |-> found[ty]]

EntitiesGet(entities, ty) == IF ty \in DOMAIN entities THEN entities[ty] ELSE {}

\* ------------------------------------------------ entity/regex mode: score
stop_words ==
  {"the", "a", "an", "and", "or", "but", "in", "on", "at", "to", "for",
   "of", "with", "by", "from", "up", "about", "into", "through", "during"}

\* f"{story.get('Title', '')} {story.get('Category', '')}"
StoryText(story) == story.Title \o story.Category

\* set(re.findall(r'\w+', text.lower())) - stop_words
WordSet(text) == {Lower(text[k]) : k \in {x \in 1..Len(text) : text[x] # "-"}} \ stop_words

\* shared / len(set1) instead of shared / total
JaccardOverFirst(set1, set2) == <<Cardinality(set1 \cap set2), Cardinality(set1)>>

\* dimension_score = shared / total
Jaccard(set1, set2) == <<Cardinality(set1 \cap set2), Cardinality(set1 \cup set2)>>

\* the entity types that count as a matched dimension
MatchedDimensions(entities1, entities2) ==
  SelectSeq(EntityTypes,
            LAMBDA ty : LET set1 == EntitiesGet(entities1, ty)
                            set2 == EntitiesGet(entities2, ty)
                        IN /\ set1 # {} /\ set2 # {}
                           /\ Cardinality(set1 \cap set2) > 0)

\* the overlap divided by the summed sizes instead of the size of the union
WordOverlapOverSum(words1, words2) ==
  <<Cardinality(words1 \cap words2), Max(Cardinality(words1) + Cardinality(words2), 1)>>

\* len(words1 & words2) / max(len(words1 | words2), 1)
WordOverlap(words1, words2) ==
  <<Cardinality(words1 \cap words2), Max(Cardinality(words1 \cup words2), 1)>>

GateHalf == <<1, 2>>
\* the entity weight mistyped as 0.8
EntityWeightHeavy == <<8, 10>>

EntityWeight == <<7, 10>>

\* the word weight mistyped as 0.5
WordWeightHeavy == <<5, 10>>

WordWeight == <<3, 10>>

\* the gate asking for one matched dimension instead of two
GateClosedOneDimension(dimensions_matched, word_overlap) ==
  dimensions_matched < 1 /\ RLess(word_overlap, GateHalf)

\* the early return of calculate_story_similarity
GateClosed(dimensions_matched, word_overlap) ==
  dimensions_matched < 2 /\ RLess(word_overlap, GateHalf)

calculate_story_similarity(story1, story2) ==
  LET text1 == StoryText(story1)
      text2 == StoryText(story2)
      entities1 == extract_entities(text1)
      entities2 == extract_entities(text2)
      dims == MatchedDimensions(entities1, entities2)
      dimensions_matched == Len(dims)
      dimension_scores ==
        [k \in 1..Len(dims) |->
           Jaccard(EntitiesGet(entities1, dims[k]), EntitiesGet(entities2, dims[k]))]
      word_overlap == WordOverlap(WordSet(text1), WordSet(text2))
      entity_similarity ==
        IF Len(dimension_scores) > 0
        THEN RMul(RSum(dimension_scores), <<1, Len(dimension_scores)>>)
        ELSE RZero
  IN IF GateClosed(dimensions_matched, word_overlap)
     THEN RZero
     ELSE RAdd(RMul(entity_similarity, EntityWeight), RMul(word_overlap, WordWeight))

\* ------------------------------------------------------- the input stories
\* Story dictionaries handed to the entity/regex engine (Title, Category).
NoText == <<>>
StoryCatalog ==
  { [Title |-> <<"China", "-", "based", "group", "runs", "visa", "scam">>,
     Category |-> NoText],
    [Title |-> <<"China", "restricts", "rare", "earth", "exports">>,
     Category |-> NoText],
    [Title |-> <<"China", "APT", "Salt", "Typhoon", "phishing", "campaign">>,
     Category |-> NoText],
    [Title |-> <<"Salt", "Typhoon", "phishing", "hits", "US", "telecom">>,
     Category |-> NoText],
    [Title |-> <<"Local", "bakery", "wins", "award">>,
     Category |-> NoText],
    [Title |-> <<"restricts", "rare", "-", "earths", "exports">>,
     Category |-> <<"china">>],
    [Title |-> <<"China", "APT", "phishing">>,
     Category |-> NoText],
    [Title |-> <<"The">>,
     Category |-> NoText],
    [Title |-> <<"bakery">>,
     Category |-> <<"award">>],
    [Title |-> <<"China", "APT", "espionage", "campaign">>,
     Category |-> NoText] }

\* calculate_story_similarity and extract_entities over the stories of the
\* catalogue, evaluated once
SimilarityOf ==
  [a \in StoryCatalog, b \in StoryCatalog |-> calculate_story_similarity(a, b)]
EntitiesOf == [s \in StoryCatalog |-> extract_entities(StoryText(s))]

\* thresholds handed to the engine, in hundredths (0.3 is the default)
Thresholds == {0, 30, 50, 100}
\* max_cluster_size values handed to the engine
ClusterSizes == 0..MaxClusterSize

RECURSIVE SeqsUpTo(_, _)
SeqsUpTo(S, n) ==
  IF n = 0 THEN {<<>>}
  ELSE LET shorter == SeqsUpTo(S, n - 1)
       IN shorter \cup {Append(q, x) : q \in {r \in shorter : Len(r) = n - 1}, x \in S}

StoryLists == SeqsUpTo(StoryCatalog, MaxStories)

\* the story lists handed to find_story_clusters: over the stories without
\* a category, with a title of more than three words and without a
\* supply-chain entity
ClusterStoryLists ==
  SeqsUpTo({s \in StoryCatalog :
              /\ s.Category = NoText
              /\ Len(s.Title) > 3
              /\ EntitiesGet(extract_entities(s.Title), "supply_chain") = {}},
           MaxStories)

\* ------------------------------------------- entity/regex mode: clustering
\* a sort that puts a cluster before the earlier clusters of its size
InsertBySizeBeforeEqual(sorted, c) ==
  InsertAt(sorted, Cardinality({k \in 1..Len(sorted) : Len(sorted[k]) > Len(c)}), c)

\* clusters.sort(key=lambda c: len(c), reverse=True): stable, largest first
InsertBySize(sorted, c) ==
  InsertAt(sorted, Cardinality({k \in 1..Len(sorted) : Len(sorted[k]) >= Len(c)}), c)

RECURSIVE SortBySizeDesc(_)
SortBySizeDesc(cs) ==
  IF cs = <<>> THEN <<>>
  ELSE InsertBySize(SortBySizeDesc(SubSeq(cs, 1, Len(cs) - 1)), cs[Len(cs)])

\* the inner loop of _split_large_cluster for seed position i, from position j
RECURSIVE SplitScan(_, _, _, _, _, _, _)
SplitScan(sts, cluster, thr, max_size, i, j, acc) ==
  \* acc = <<sub_cluster, assigned>>
  IF j > Len(cluster) THEN acc
  ELSE IF j \in acc[2] THEN SplitScan(sts, cluster, thr, max_size, i, j + 1, acc)
  ELSE IF Len(acc[1]) >= max_size THEN acc
  ELSE IF RGeq(SimilarityOf[sts[cluster[i]], sts[cluster[j]]], Pct(thr))
       THEN SplitScan(sts, cluster, thr, max_size, i, j + 1,
                      <<Append(acc[1], cluster[j]), acc[2] \cup {j}>>)
  ELSE SplitScan(sts, cluster, thr, max_size, i, j + 1, acc)

\* the outer loop of _split_large_cluster from seed position i
RECURSIVE SplitGrow(_, _, _, _, _, _)
SplitGrow(sts, cluster, thr, max_size, i, assigned) ==
  IF i > Len(cluster) THEN <<>>
  ELSE IF i \in assigned THEN SplitGrow(sts, cluster, thr, max_size, i + 1, assigned)
  ELSE LET grown == SplitScan(sts, cluster, thr, max_size, i, i + 1,
                              <<(<<cluster[i]>>), assigned \cup {i}>>)
       IN <<grown[1]>> \o SplitGrow(sts, cluster, thr, max_size, i + 1, grown[2])

\* _split_large_cluster(cluster, higher_threshold, max_size); a cluster is
\* the sequence of the indices (into the story list) of its members
_split_large_cluster(sts, cluster, higher_threshold, max_size) ==
  IF Len(cluster) <= max_size THEN <<cluster>>
  ELSE SplitGrow(sts, cluster, higher_threshold, max_size, 1, {})

SplitOffset == 10

\* the post-pass of find_story_clusters over the sorted clusters
RECURSIVE RefineClusters(_, _, _, _)
RefineClusters(sts, cs, thr, max_size) ==
  IF cs = <<>> THEN <<>>
  ELSE (IF Len(Head(cs)) > max_size
        THEN _split_large_cluster(sts, Head(cs), thr + SplitOffset, max_size)
        ELSE <<Head(cs)>>)
       \o RefineClusters(sts, Tail(cs), thr, max_size)

\* ---------------------------------------------------- generate_graph_data
\* an edge kept only when the score exceeds the threshold
KeepsEdgeStrict(similarity, thr) == RLess(Pct(thr), similarity)

\* similarity >= threshold
KeepsEdge(similarity, thr) == RGeq(similarity, Pct(thr))

\* the edge loops of generate_graph_data from the pair (a, b) on
RECURSIVE GraphEdgesFrom(_, _, _, _, _)
GraphEdgesFrom(sts, thr, a, b, edges) ==
  IF a > Len(sts) THEN edges
  ELSE IF b > Len(sts) THEN GraphEdgesFrom(sts, thr, a + 1, a + 2, edges)
  ELSE IF KeepsEdge(SimilarityOf[sts[a], sts[b]], thr)
       THEN GraphEdgesFrom(sts, thr, a, b + 1,
              Append(edges, [from |-> a, to |-> b,
                             weight |-> SimilarityOf[sts[a], sts[b]]]))
       ELSE GraphEdgesFrom(sts, thr, a, b + 1, edges)

\* generate_graph_data: a node per story and an edge per pair of stories
\* scoring at least the threshold.  The titles of the catalogue are shorter
\* than 50 characters, so the label keeps them whole; the source and link
\* of a story are not modelled.
generate_graph_data(sts, thr) ==
  [nodes |-> [k \in 1..Len(sts) |->
                [id |-> k,
                 label |-> sts[k].Title \o <<"...">>,
                 category |-> sts[k].Category,
                 full_title |-> sts[k].Title]],
   edges |-> GraphEdgesFrom(sts, thr, 1, 2, <<>>)]

\* -------------------------------------------------- identify_connections
\* entity_map["type:entity"]: the stories (indices, in input order) whose
\* extracted set of that type holds the entity
EntityMapList(sts, ty, entity) ==
  SelectSeq([k \in 1..Len(sts) |-> k],
            LAMBDA k : entity \in EntitiesGet(EntitiesOf[sts[k]], ty))

EntityMapKeys(sts) ==
  UNION {{<<ty, e>> : e \in EntitiesGet(EntitiesOf[sts[k]], ty)} :
           ty \in SeqToSet(EntityTypes), k \in 1..Len(sts)}

\* the retention test with the bound off by one
IsConnectionPointOverTwo(story_list) == Len(story_list) > 2

\* the retention test of identify_connections: len(story_list) > 1
IsConnectionPoint(story_list) == Len(story_list) > 1

identify_connections(sts) ==
  LET keys == {key \in EntityMapKeys(sts) :
                 /\ EntityMapList(sts, key[1], key[2]) # <<>>
                 /\ IsConnectionPoint(EntityMapList(sts, key[1], key[2]))}
      types == {key[1] : key \in keys}
  IN [ty \in types |->
        [e \in {key[2] : key \in {x \in keys : x[1] = ty}} |->
           [count |-> Len(EntityMapList(sts, ty, e)),
            stories |-> EntityMapList(sts, ty, e)]]]

\* ------------------------------------------- general mode: NLPProcessor
\* The processor without a spaCy model (self.nlp is None) and without
\* scikit-learn: entities come from _extract_entities_basic and the lexical
\* component from _simple_similarity.  The token " " stands for the space
\* an f-string puts between two fields.
Space == " "

\* tokens matching [A-Z][a-z]+
CapitalizedWords ==
  {"China", "Salt", "Typhoon", "Local", "The", "Alice", "Bob", "Carol",
   "Dave", "Erin", "Frank", "Grace", "Heidi", "Ivan", "Judy", "Mallory",
   "Acme", "Corp"}

\* tokens with one of org_keywords as a substring
OrgKeywordTokens == {"Corp"}

\* tokens that do not match [a-z]{3,} once lower-cased
NonWordTokens == {"-", " ", "us", "a", "an", "in", "on", "at", "to", "of", "by", "or", "up"}

\* the end of the match of [A-Z][a-z]+(?:\s+[A-Z][a-z]+)* that starts at pos
PhraseEnd(text, pos) ==
  LET ends == {e \in pos..Len(text) :
                 /\ text[e] \in CapitalizedWords
                 /\ \A k \in pos..e : text[k] \in CapitalizedWords \cup {Space}}
  IN CHOOSE e \in ends : \A f \in ends : f <= e

\* the string of a match: a Space token right after a word is the single
\* space that separates two words anyway, a further one is an extra space
MatchedString(m) ==
  LET keep == {k \in 1..Len(m) : m[k] # Space \/ m[k - 1] = Space}
  IN [x \in 1..Cardinality(keep) |->
        m[CHOOSE k \in keep : Cardinality({y \in keep : y <= k}) = x]]

\* re.findall(r'\b[A-Z][a-z]+(?:\s+[A-Z][a-z]+)*\b', text)
RECURSIVE CapitalizedPhrases(_, _)
CapitalizedPhrases(text, pos) ==
  IF pos > Len(text) THEN <<>>
  ELSE IF text[pos] \in CapitalizedWords
       THEN <<MatchedString(SubSeq(text, pos, PhraseEnd(text, pos)))>>
            \o CapitalizedPhrases(text, PhraseEnd(text, pos) + 1)
  ELSE CapitalizedPhrases(text, pos + 1)

\* len(word.split())
WordCount(phrase) == Len(SelectSeq(phrase, LAMBDA t : t # Space))

\* the distinct elements of a list, in first-seen order
AppendNew(front, x) ==
  IF \E k \in 1..Len(front) : front[k] = x THEN front ELSE Append(front, x)

RECURSIVE Distinct(_)
Distinct(seq) ==
  IF seq = <<>> THEN <<>>
  ELSE AppendNew(Distinct(SubSeq(seq, 1, Len(seq) - 1)), seq[Len(seq)])

EntityCap == 10

\* list(set(candidates))[:10], as the set of the retained strings.  The
\* order in which a set of strings is iterated depends on the hash seed of
\* the process: under seed h the element first seen at rank r (from 0) of m
\* distinct elements is iterated at position (r + h) % m.
ListOfSetTruncated(candidates, hash_seed) ==
  LET d == Distinct(candidates)
      m == Len(d)
  IN {d[r] : r \in {x \in 1..m : ((x - 1) + hash_seed) % m < EntityCap}}

\* _extract_entities_basic
_extract_entities_basic(text, hash_seed) ==
  LET words == CapitalizedPhrases(text, 1)
      potential_orgs ==
        SelectSeq(words, LAMBDA w : \E k \in 1..Len(w) : w[k] \in OrgKeywordTokens)
      potential_persons ==
        SelectSeq(words, LAMBDA w : /\ ~(\E k \in 1..Len(w) : w[k] \in OrgKeywordTokens)
                                    /\ WordCount(w) <= 3)
      keys == (IF potential_orgs # <<>> THEN {"ORG"} ELSE {})
              \cup (IF potential_persons # <<>> THEN {"PERSON"} ELSE {})
  IN [ty \in keys |->
        IF ty = "ORG" THEN ListOfSetTruncated(potential_orgs, hash_seed)
        ELSE ListOfSetTruncated(potential_persons, hash_seed)]

nlp_stopwords ==
  {"the", "a", "an", "and", "or", "but", "in", "on", "at", "to", "for",
   "of", "with", "by", "from", "as", "is", "was", "are", "were", "been",
   "be", "have", "has", "had", "do", "does", "did", "will", "would",
   "could", "should", "may", "might", "must", "can", "this", "that",
   "these", "those", "i", "you", "he", "she", "it", "we", "they",
   "what", "which", "who", "when", "where", "why", "how", "said",
   "say", "says"}

\* re.findall(r'\b[a-z]{3,}\b', text.lower())
LongWords(text) ==
  SelectSeq(LowerSeq(text), LAMBDA t : t \notin NonWordTokens)

Occurrences(seq, x) == Cardinality({k \in 1..Len(seq) : seq[k] = x})

\* Counter(words).most_common(): by falling count, first seen first
InsertByCount(words, sorted, x) ==
  InsertAt(sorted,
           Cardinality({k \in 1..Len(sorted) :
                          Occurrences(words, sorted[k]) >= Occurrences(words, x)}),
           x)

RECURSIVE MostCommon(_, _)
MostCommon(words, d) ==
  IF d = <<>> THEN <<>>
  ELSE InsertByCount(words, MostCommon(words, SubSeq(d, 1, Len(d) - 1)), d[Len(d)])

TopN == 10

\* extract_keywords(text, top_n=10)
extract_keywords(text) ==
  LET filtered_words == SelectSeq(LongWords(text), LAMBDA w : w \notin nlp_stopwords)
      ranked == MostCommon(filtered_words, Distinct(filtered_words))
  IN SubSeq(ranked, 1, Min(TopN, Len(ranked)))

\* _simple_similarity
\* _simple_similarity dividing by the size of the first word set
_simple_similarity_over_first(text1, text2) ==
  LET words1 == SeqToSet(LongWords(text1))
      words2 == SeqToSet(LongWords(text2))
  IN IF words1 = {} \/ words2 = {} THEN RZero
     ELSE <<Cardinality(words1 \cap words2), Cardinality(words1)>>

_simple_similarity(text1, text2) ==
  LET words1 == SeqToSet(LongWords(text1))
      words2 == SeqToSet(LongWords(text2))
  IN IF words1 = {} \/ words2 = {} THEN RZero
     ELSE IF Cardinality(words1 \cup words2) > 0
          THEN <<Cardinality(words1 \cap words2), Cardinality(words1 \cup words2)>>
     ELSE RZero

\* calculate_similarity: the import of sklearn raises, the handler falls
\* back to _simple_similarity
calculate_similarity(text1, text2) ==
  IF text1 = <<>> \/ text2 = <<>> THEN RZero
  ELSE _simple_similarity(text1, text2)

\* process_story: the features of one story
process_story(story, hash_seed) ==
  LET text == story.title \o <<Space>> \o story.description \o <<Space>> \o story.content
  IN [entities |-> _extract_entities_basic(text, hash_seed),
      keywords |-> extract_keywords(text),
      text_for_similarity |-> text]

\* Story objects handed to the general-purpose engine; malformed marks an
\* object whose processing raises
NewsStory(title, description, published_date) ==
  [title |-> title, description |-> description, content |-> <<>>,
   published_date |-> published_date, malformed |-> FALSE]

NewsCatalog ==
  { NewsStory(<<"Alice", "met", "Bob">>, <<>>, 0),
    NewsStory(<<"Bob", "met", "Carol">>, <<>>, 600),
    NewsStory(<<"Carol", "met", "Dave">>, <<>>, 1200),
    NewsStory(<<"Acme", "Corp", "hired", "Erin">>, <<"The", "award">>, 864000),
    NewsStory(<<"Alice", "and", "Bob", "and", "Carol", "and", "Dave", "and",
                "Erin", "and", "Frank">>,
              <<"and", "Grace", "and", "Heidi", "and", "Ivan", "and", "Judy",
                "and", "Mallory">>, 0),
    NewsStory(<<"Mallory">>, <<>>, 0),
    [title |-> <<"Alice", "met", "Bob">>, description |-> <<>>, content |-> <<>>,
     published_date |-> 0, malformed |-> TRUE] }

\* the features of the well-formed stories of the catalogue, evaluated once
HashSeeds == 0..MaxHashSeed
ProcessedOf ==
  [s \in {x \in NewsCatalog : ~x.malformed}, h \in HashSeeds |-> process_story(s, h)]

\* ----------------------------------------- general mode: StoryCorrelator
\* the shared entities divided by the size of the larger side, not the union
_entity_similarity_over_larger(entities1, entities2) ==
  IF DOMAIN entities1 = {} \/ DOMAIN entities2 = {} THEN RZero
  ELSE LET all_entities1 == UNION {{LowerSeq(e) : e \in entities1[ty]} : ty \in DOMAIN entities1}
           all_entities2 == UNION {{LowerSeq(e) : e \in entities2[ty]} : ty \in DOMAIN entities2}
       IN IF all_entities1 = {} \/ all_entities2 = {} THEN RZero
          ELSE <<Cardinality(all_entities1 \cap all_entities2),
                 Max(Cardinality(all_entities1), Cardinality(all_entities2))>>

\* _entity_similarity
_entity_similarity(entities1, entities2) ==
  IF DOMAIN entities1 = {} \/ DOMAIN entities2 = {} THEN RZero
  ELSE LET all_entities1 == UNION {{LowerSeq(e) : e \in entities1[ty]} : ty \in DOMAIN entities1}
           all_entities2 == UNION {{LowerSeq(e) : e \in entities2[ty]} : ty \in DOMAIN entities2}
       IN IF all_entities1 = {} \/ all_entities2 = {} THEN RZero
          ELSE IF Cardinality(all_entities1 \cup all_entities2) > 0
               THEN <<Cardinality(all_entities1 \cap all_entities2),
                      Cardinality(all_entities1 \cup all_entities2)>>
          ELSE RZero

\* _keyword_similarity
_keyword_similarity(keywords1, keywords2) ==
  IF keywords1 = {} \/ keywords2 = {} THEN RZero
  ELSE IF Cardinality(keywords1 \cup keywords2) > 0
       THEN <<Cardinality(keywords1 \cap keywords2), Cardinality(keywords1 \cup keywords2)>>
  ELSE RZero

Hour == 3600
Day == 86400
Week == 604800

\* the steps taken with <= instead of <
_temporal_similarity_inclusive(date1, date2) ==
  LET time_diff == IF date1 >= date2 THEN date1 - date2 ELSE date2 - date1
  IN IF time_diff <= Hour THEN ROne
     ELSE IF time_diff <= Day THEN <<1, 2>>
     ELSE IF time_diff <= Week THEN <<1, 5>>
     ELSE RZero

\* _temporal_similarity, dates in seconds
_temporal_similarity(date1, date2) ==
  LET time_diff == IF date1 >= date2 THEN date1 - date2 ELSE date2 - date1
  IN IF time_diff < Hour THEN ROne
     ELSE IF time_diff < Day THEN <<1, 2>>
     ELSE IF time_diff < Week THEN <<1, 5>>
     ELSE RZero

\* _calculate_story_similarity on two entries of processed_stories
_calculate_story_similarity(story1, story2) ==
  LET data1 == story1.data
      data2 == story2.data
      text_sim == calculate_similarity(data1.text_for_similarity, data2.text_for_similarity)
      entity_sim == _entity_similarity(data1.entities, data2.entities)
      keyword_sim == _keyword_similarity(SeqToSet(data1.keywords), SeqToSet(data2.keywords))
      temporal_sim == _temporal_similarity(story1.published_date, story2.published_date)
  IN RAdd(RAdd(RAdd(RMul(text_sim, <<4, 10>>), RMul(entity_sim, <<3, 10>>)),
               RMul(keyword_sim, <<2, 10>>)),
          RMul(temporal_sim, <<1, 10>>))

\* a relationship kept only when the score exceeds the threshold
KeepsRelationshipStrict(similarity, similarity_threshold) ==
  RLess(Pct(similarity_threshold), similarity)

\* similarity >= self.similarity_threshold
KeepsRelationship(similarity, similarity_threshold) ==
  RGeq(similarity, Pct(similarity_threshold))

\* the loops of _find_relationships from the pair (k, l) on; raised tells
\* that the progress percentage divided by a zero total_comparisons
RECURSIVE FindRelationshipsFrom(_, _, _, _, _)
FindRelationshipsFrom(processed_stories, similarity_threshold, k, l, relationships) ==
  LET n == Len(processed_stories)
      total_comparisons == (n * (n - 1)) \div 2
  IN IF k > n THEN [raised |-> FALSE, relationships |-> relationships]
     ELSE IF l > n
     THEN FindRelationshipsFrom(processed_stories, similarity_threshold, k + 1, k + 2, relationships)
     ELSE IF total_comparisons = 0 THEN [raised |-> TRUE, relationships |-> relationships]
     ELSE LET similarity == _calculate_story_similarity(processed_stories[k], processed_stories[l])
          IN FindRelationshipsFrom(processed_stories, similarity_threshold, k, l + 1,
               IF KeepsRelationship(similarity, similarity_threshold)
               THEN Append(relationships, <<k, l, similarity>>)
               ELSE relationships)

\* the progress percentage computed before the loops
_find_relationships_percent_first(processed_stories, similarity_threshold) ==
  IF (Len(processed_stories) * (Len(processed_stories) - 1)) \div 2 = 0
  THEN [raised |-> TRUE, relationships |-> <<>>]
  ELSE FindRelationshipsFrom(processed_stories, similarity_threshold, 1, 2, <<>>)

_find_relationships(processed_stories, similarity_threshold) ==
  FindRelationshipsFrom(processed_stories, similarity_threshold, 1, 2, <<>>)

\* StoryCluster(cluster_id)
StoryCluster(cluster_id) ==
  [id |-> cluster_id, stories |-> <<>>, shared_entities |-> <<>>, shared_keywords |-> {}]

\* add_story assigning the keywords of the story instead of adding them
add_story_keywords_assigned(c, story, story_data) ==
  LET types == DOMAIN c.shared_entities \cup DOMAIN story_data.entities
  IN [id |-> c.id,
      stories |-> Append(c.stories, [story |-> story, data |-> story_data]),
      shared_entities |->
        [ty \in types |-> EntitiesGet(c.shared_entities, ty)
                            \cup EntitiesGet(story_data.entities, ty)],
      shared_keywords |-> SeqToSet(story_data.keywords)]

\* StoryCluster.add_story; story is the index of the story in the input
\* list (the object the entry refers to)
add_story(c, story, story_data) ==
  LET types == DOMAIN c.shared_entities \cup DOMAIN story_data.entities
  IN [id |-> c.id,
      stories |-> Append(c.stories, [story |-> story, data |-> story_data]),
      shared_entities |->
        [ty \in types |-> EntitiesGet(c.shared_entities, ty)
                            \cup EntitiesGet(story_data.entities, ty)],
      shared_keywords |-> c.shared_keywords \cup SeqToSet(story_data.keywords)]

\* a set of strings as the list Python makes of it: some order of its
\* elements, rotated with the hash seed of the process
RECURSIVE Enumerate(_)
Enumerate(S) ==
  IF S = {} THEN <<>>
  ELSE LET x == CHOOSE y \in S : TRUE IN <<x>> \o Enumerate(S \ {x})

\* list(S)[:cap], as the set of the retained elements
ListOfSetCapped(S, cap, hash_seed) ==
  LET d == Enumerate(S)
      m == Len(d)
  IN {d[r] : r \in {x \in 1..m : ((x - 1) + hash_seed) % m < cap}}

TopEntities == 5
TopKeywords == 10

\* StoryCluster.get_summary; sts are the Story objects the entries refer
\* to.  The id, url and source of a story are not modelled.
get_summary(c, sts, hash_seed) ==
  IF c.stories = <<>> THEN <<>>
  ELSE LET dates == {sts[c.stories[k].story].published_date : k \in 1..Len(c.stories)}
       IN [cluster_id |-> c.id,
           story_count |-> Len(c.stories),
           stories |-> [k \in 1..Len(c.stories) |->
                          [title |-> sts[c.stories[k].story].title,
                           published_date |-> sts[c.stories[k].story].published_date]],
           shared_entities |->
             [ty \in DOMAIN c.shared_entities |->
                ListOfSetCapped(c.shared_entities[ty], TopEntities, hash_seed)],
           shared_keywords |-> ListOfSetCapped(c.shared_keywords, TopKeywords, hash_seed),
           date_range |-> [start |-> CHOOSE d \in dates : \A e \in dates : d <= e,
                           end |-> CHOOSE d \in dates : \A e \in dates : d >= e]]

RECURSIVE AddStories(_, _, _)
AddStories(c, processed_stories, nodes) ==
  IF nodes = <<>> THEN c
  ELSE AddStories(add_story(c, processed_stories[Head(nodes)].story,
                            processed_stories[Head(nodes)].data),
                  processed_stories, Tail(nodes))

\* a set of small non-negative integers, in the order Python iterates it
RECURSIVE SetToSeq(_)
SetToSeq(S) ==
  IF S = {} THEN <<>>
  ELSE LET m == CHOOSE x \in S : \A y \in S : x <= y
       IN <<m>> \o SetToSeq(S \ {m})

\* the adjacency list filled with graph[i].add(i) and graph[j].add(j)
NeighborsOfSelf(relationships, node) ==
  {relationships[r][1] : r \in {x \in 1..Len(relationships) : relationships[x][1] = node}}
  \cup {relationships[r][2] : r \in {x \in 1..Len(relationships) : relationships[x][2] = node}}

\* graph[node] of the adjacency list built from the relationships
Neighbors(relationships, node) ==
  {relationships[r][2] : r \in {x \in 1..Len(relationships) : relationships[x][1] = node}}
  \cup {relationships[r][1] : r \in {x \in 1..Len(relationships) : relationships[x][2] = node}}

\* dfs(node, current_cluster_nodes) of _create_clusters: the visited set
\* after the call
RECURSIVE dfs(_, _, _)
RECURSIVE DfsNeighbors(_, _, _)
\* a search that visits the neighbours of the start node only
dfs_one_level(relationships, node, visited) ==
  visited \cup {node} \cup Neighbors(relationships, node)

dfs(relationships, node, visited) ==
  DfsNeighbors(relationships, SetToSeq(Neighbors(relationships, node)), visited \cup {node})
DfsNeighbors(relationships, neighbors, visited) ==
  IF neighbors = <<>> THEN visited
  ELSE IF Head(neighbors) \in visited
       THEN DfsNeighbors(relationships, Tail(neighbors), visited)
  ELSE DfsNeighbors(relationships, Tail(neighbors), dfs(relationships, Head(neighbors), visited))

\* the loop "for i in range(len(processed_stories))" of _create_clusters;
\* after is the visited set once dfs(i, current_cluster_nodes) has returned
RECURSIVE ComponentsFrom(_, _, _, _, _)
RECURSIVE ComponentAnd(_, _, _, _, _, _)
ComponentAnd(processed_stories, relationships, k, visited, cluster_id, after) ==
  <<AddStories(StoryCluster(cluster_id), processed_stories, SetToSeq(after \ visited))>>
  \o ComponentsFrom(processed_stories, relationships, k + 1, after, cluster_id + 1)
ComponentsFrom(processed_stories, relationships, k, visited, cluster_id) ==
  IF k > Len(processed_stories) THEN <<>>
  ELSE IF k \in visited
       THEN ComponentsFrom(processed_stories, relationships, k + 1, visited, cluster_id)
  ELSE ComponentAnd(processed_stories, relationships, k, visited, cluster_id,
                    dfs(relationships, k, visited))

\* clusters.sort(key=lambda c: len(c.stories), reverse=True)
InsertByStoryCount(sorted, c) ==
  InsertAt(sorted,
           Cardinality({k \in 1..Len(sorted) : Len(sorted[k].stories) >= Len(c.stories)}),
           c)

RECURSIVE SortClustersDesc(_)
SortClustersDesc(cs) ==
  IF cs = <<>> THEN <<>>
  ELSE InsertByStoryCount(SortClustersDesc(SubSeq(cs, 1, Len(cs) - 1)), cs[Len(cs)])

\* _create_clusters; cluster ids count from 0 as in the source
_create_clusters(processed_stories, relationships) ==
  IF relationships = <<>>
  THEN [k \in 1..Len(processed_stories) |->
          add_story(StoryCluster(k - 1), processed_stories[k].story, processed_stories[k].data)]
  ELSE SortClustersDesc(ComponentsFrom(processed_stories, relationships, 1, {}, 0))

\* the extraction loop of find_related_stories: a story whose processing
\* raises is logged and gets no entry
RECURSIVE ProcessAll(_, _, _)
ProcessAll(story_list, k, hash_seed) ==
  IF k > Len(story_list) THEN <<>>
  ELSE (IF story_list[k].malformed THEN <<>>
        ELSE << [story |-> k,
                 published_date |-> story_list[k].published_date,
                 data |-> ProcessedOf[story_list[k], hash_seed]] >>)
       \o ProcessAll(story_list, k + 1, hash_seed)

\* find_related_stories: the returned clusters, and whether the call raised
find_related_stories(story_list, similarity_threshold, hash_seed) ==
  IF story_list = <<>> THEN [raised |-> FALSE, clusters |-> <<>>]
  ELSE LET processed_stories == ProcessAll(story_list, 1, hash_seed)
           found == _find_relationships(processed_stories, similarity_threshold)
       IN IF found.raised THEN [raised |-> TRUE, clusters |-> <<>>]
          ELSE [raised |-> FALSE,
                clusters |-> _create_clusters(processed_stories, found.relationships)]

\* similarity_threshold values of the configuration, in hundredths; at
\* these the comparison of the float score agrees with the exact one
NewsThresholds == {15, 30}

\* the story lists handed to find_related_stories
NewsLists ==
  SeqsUpTo({s \in NewsCatalog : s.published_date = 0 \/ s.published_date = 600},
           MaxStories)

\* ------------------------------------------------- aggregator: collection
\* self.collectors, in the order _initialize_collectors appends them
Collectors == <<"NewsAPICollector", "GDELTCollector", "WebScraperCollector">>

\* the urls of the stories a collector can return
Urls == {"u1", "u2"}

\* what collector.collect() can do: raise, or return a list of stories
CollectorOutcomes(collector) ==
  {[raised |-> TRUE, stories |-> <<>>]}
  \cup {[raised |-> FALSE,
         stories |-> [k \in 1..Len(q) |-> [url |-> q[k], collector |-> collector]]] :
           q \in SeqsUpTo(Urls, MaxCollected)}

\* the loop over self.collectors from collector k on: all_stories
RECURSIVE Gather(_, _)
Gather(outcomes, k) ==
  IF k > Len(outcomes) THEN <<>>
  ELSE (IF outcomes[k].raised THEN <<>> ELSE outcomes[k].stories)
       \o Gather(outcomes, k + 1)

\* the list returned without the deduplication
DeduplicateNone(all_stories) == all_stories

\* list({story.url: story for story in all_stories}.values()): one entry per
\* url, in the order the urls first appear, holding the last story of the url
Deduplicate(all_stories) ==
  LET firsts == SetToSeq({p \in 1..Len(all_stories) :
                            \A q \in 1..(p - 1) : all_stories[q].url # all_stories[p].url})
  IN [x \in 1..Len(firsts) |->
        all_stories[CHOOSE p \in 1..Len(all_stories) :
                      /\ all_stories[p].url = all_stories[firsts[x]].url
                      /\ \A q \in (p + 1)..Len(all_stories) :
                           all_stories[q].url # all_stories[p].url]]

\* OsintAggregator.collect_stories
collect_stories(outcomes) == Deduplicate(Gather(outcomes, 1))

\* the published dates handed to _temporal_similarity, in seconds: 10
\* minutes, 10 days and the two sides of every step
TemporalDates == {0, 600, 3599, 3600, 86399, 86400, 604799, 604800, 864000}

\* ------------------------------------------------------------------ state
VARIABLES
  pc,                \* position of the call in progress
  op,                \* the entry point called
  stories,           \* find_story_clusters / identify_connections: stories
  news,              \* find_related_stories: stories
  threshold,         \* threshold / similarity_threshold (hundredths)
  max_cluster_size,  \* find_story_clusters: max_cluster_size
  hash_seed,         \* the string hash seed of the running process
  i, j,              \* find_story_clusters: loop indices (1-based)
  cluster,           \* find_story_clusters: the cluster being grown
  clusters,          \* find_story_clusters: clusters
  assigned,          \* find_story_clusters: assigned
  result,            \* the value returned by the call
  raised,            \* the call ended with an exception
  score_args,        \* the two stories handed to a pair score
  run,               \* how many times the call was made on this input
  prev,              \* the value returned by the previous run
  collected,         \* collect_stories: what each collector's collect() did
  story_cluster      \* a StoryCluster object stories are added to

vars == <<pc, op, stories, news, threshold, max_cluster_size, hash_seed, i, j,
          cluster, clusters, assigned, result, raised, score_args, run, prev,
          collected, story_cluster>>

Init ==
  /\ pc = "idle"
  /\ op = "none"
  /\ stories = <<>>
  /\ news = <<>>
  /\ threshold = 0
  /\ max_cluster_size = 0
  /\ hash_seed = 0
  /\ i = 0
  /\ j = 0
  /\ cluster = <<>>
  /\ clusters = <<>>
  /\ assigned = {}
  /\ result = <<>>
  /\ raised = FALSE
  /\ score_args = <<>>
  /\ run = 0
  /\ prev = <<>>
  /\ collected = <<>>
  /\ story_cluster = <<>>

\* the growth loop forgetting to mark the story
MarkAssignedForgotten(done, k) == done

\* the growth loop overwriting the set: assigned = {j}
MarkAssignedOverwritten(done, k) == {k}

\* assigned.add(j) of the growth loop
MarkAssigned(done, k) == done \cup {k}

\* the growth loop stopping one member short of the size limit
ClusterFullEarly(members, max_size) == Len(members) + 1 >= max_size

\* the growth loop without the size limit
ClusterFullNever(members, max_size) == FALSE

\* len(cluster) >= max_cluster_size of the growth loop
ClusterFull(members, max_size) == Len(members) >= max_size

\* the growth loop taking every unassigned story
JoinsClusterAlways(similarity, thr) == TRUE

\* similarity >= threshold of the growth loop
JoinsCluster(similarity, thr) == RGeq(similarity, Pct(thr))

\* find_story_clusters is called: lines 146-152
CallFindStoryClusters ==
  /\ pc = "idle"
  /\ \E sts \in ClusterStoryLists, thr \in Thresholds, k \in ClusterSizes :
       /\ stories' = sts
       /\ threshold' = thr
       /\ max_cluster_size' = k
       /\ IF sts = <<>>
          THEN pc' = "done" /\ result' = <<>>
          ELSE pc' = "seed" /\ result' = result
  /\ op' = "find_story_clusters"
  /\ i' = 1
  /\ clusters' = <<>>
  /\ assigned' = {}
  /\ run' = 1
  /\ UNCHANGED <<collected, story_cluster, news, hash_seed, j, cluster, raised, score_args, prev>>

\* find_story_clusters is called again on the same arguments
RerunFindStoryClusters ==
  /\ pc = "done"
  /\ op = "find_story_clusters"
  /\ run = 1
  /\ prev' = result
  /\ IF stories = <<>>
     THEN pc' = "done" /\ result' = <<>>
     ELSE pc' = "seed" /\ result' = <<>>
  /\ i' = 1
  /\ clusters' = <<>>
  /\ assigned' = {}
  /\ run' = 2
  /\ UNCHANGED <<collected, story_cluster, op, stories, news, threshold, max_cluster_size, hash_seed, j,
                 cluster, raised, score_args>>

\* one iteration of "for i in range(n)" up to the start of the inner loop
SeedStep ==
  /\ pc = "seed"
  /\ i <= Len(stories)
  /\ IF i \in assigned
     THEN /\ i' = i + 1
          /\ UNCHANGED <<pc, j, cluster, assigned>>
     ELSE /\ cluster' = <<i>>
          /\ assigned' = assigned \cup {i}
          /\ j' = i + 1
          /\ pc' = "scan"
          /\ UNCHANGED i
  /\ UNCHANGED <<collected, story_cluster, op, stories, news, threshold, max_cluster_size, hash_seed,
                 clusters, result, raised, score_args, run, prev>>

\* one iteration of "for j in range(i + 1, n)", or the end of that loop
\* followed by clusters.append(cluster)
ScanStep ==
  /\ pc = "scan"
  /\ IF j > Len(stories)
     THEN /\ clusters' = Append(clusters, cluster)
          /\ i' = i + 1
          /\ pc' = "seed"
          /\ UNCHANGED <<j, cluster, assigned>>
     ELSE IF j \in assigned
     THEN /\ j' = j + 1
          /\ UNCHANGED <<pc, i, cluster, clusters, assigned>>
     ELSE IF ClusterFull(cluster, max_cluster_size)
     THEN /\ clusters' = Append(clusters, cluster)
          /\ i' = i + 1
          /\ pc' = "seed"
          /\ UNCHANGED <<j, cluster, assigned>>
     ELSE IF JoinsCluster(SimilarityOf[stories[i], stories[j]], threshold)
     THEN /\ cluster' = Append(cluster, j)
          /\ assigned' = MarkAssigned(assigned, j)
          /\ j' = j + 1
          /\ UNCHANGED <<pc, i, clusters>>
     ELSE /\ j' = j + 1
          /\ UNCHANGED <<pc, i, cluster, clusters, assigned>>
  /\ UNCHANGED <<collected, story_cluster, op, stories, news, threshold, max_cluster_size, hash_seed,
                 result, raised, score_args, run, prev>>

\* after the outer loop: the sort, the post-pass split and the return
FinishClusters ==
  /\ pc = "seed"
  /\ i > Len(stories)
  /\ clusters' = SortBySizeDesc(clusters)
  /\ result' = RefineClusters(stories, SortBySizeDesc(clusters), threshold, max_cluster_size)
  /\ pc' = "done"
  /\ UNCHANGED <<collected, story_cluster, op, stories, news, threshold, max_cluster_size, hash_seed, i, j,
                 cluster, assigned, raised, score_args, run, prev>>

\* calculate_story_similarity (entity/regex mode) is called on two stories
CallCalculateStorySimilarity ==
  /\ pc = "idle"
  /\ \E a \in StoryCatalog, b \in StoryCatalog :
       /\ score_args' = <<a, b>>
       /\ result' = SimilarityOf[a, b]
  /\ op' = "calculate_story_similarity"
  /\ pc' = "done"
  /\ run' = 1
  /\ UNCHANGED <<collected, story_cluster, stories, news, threshold, max_cluster_size, hash_seed, i, j,
                 cluster, clusters, assigned, raised, prev>>

\* _calculate_story_similarity (general mode) is called on two processed
\* stories
CallGeneralStorySimilarity ==
  /\ pc = "idle"
  /\ \E a \in {x \in NewsCatalog : ~x.malformed},
        b \in {x \in NewsCatalog : ~x.malformed}, h \in HashSeeds :
       LET story1 == [published_date |-> a.published_date, data |-> ProcessedOf[a, h]]
           story2 == [published_date |-> b.published_date, data |-> ProcessedOf[b, h]]
       IN /\ score_args' = <<story1, story2>>
          /\ hash_seed' = h
          /\ result' = _calculate_story_similarity(story1, story2)
  /\ op' = "_calculate_story_similarity"
  /\ pc' = "done"
  /\ run' = 1
  /\ UNCHANGED <<collected, story_cluster, stories, news, threshold, max_cluster_size, i, j,
                 cluster, clusters, assigned, raised, prev>>

\* _temporal_similarity is called on two published dates
CallTemporalSimilarity ==
  /\ pc = "idle"
  /\ \E date1 \in TemporalDates, date2 \in TemporalDates :
       /\ score_args' = <<date1, date2>>
       /\ result' = _temporal_similarity(date1, date2)
  /\ op' = "_temporal_similarity"
  /\ pc' = "done"
  /\ run' = 1
  /\ UNCHANGED <<collected, story_cluster, stories, news, threshold, max_cluster_size, hash_seed, i, j,
                 cluster, clusters, assigned, raised, prev>>

\* texts handed to calculate_similarity: empty, without a word of three
\* letters, and with words in either case
SimilarityTexts ==
  {<<>>, <<Space>>, <<"us", Space, "in">>,
   <<"Alice", Space, "met", Space, "Bob">>,
   <<"alice", Space, "met", Space, "Carol">>,
   <<"Bob", Space, "met", Space, "Carol", Space, "in", Space, "China">>}

\* calculate_similarity is called on two texts; the vectorization raises
\* and the handler returns the fallback
CallCalculateSimilarity ==
  /\ pc = "idle"
  /\ \E text1 \in SimilarityTexts, text2 \in SimilarityTexts :
       /\ score_args' = <<text1, text2>>
       /\ result' = calculate_similarity(text1, text2)
  /\ raised' = FALSE
  /\ op' = "calculate_similarity"
  /\ pc' = "done"
  /\ run' = 1
  /\ UNCHANGED <<collected, story_cluster, stories, news, threshold,
                 max_cluster_size, hash_seed, i, j, cluster, clusters, assigned,
                 prev>>

\* collect_stories is called; every collector raises or returns stories
CallCollectStories ==
  /\ pc = "idle"
  /\ \E o1 \in CollectorOutcomes(Collectors[1]), o2 \in CollectorOutcomes(Collectors[2]),
        o3 \in CollectorOutcomes(Collectors[3]) :
       /\ collected' = <<o1, o2, o3>>
       /\ result' = collect_stories(<<o1, o2, o3>>)
  /\ raised' = FALSE
  /\ op' = "collect_stories"
  /\ pc' = "done"
  /\ run' = 1
  /\ UNCHANGED <<story_cluster, stories, news, threshold, max_cluster_size,
                 hash_seed, i, j, cluster, clusters, assigned, score_args, prev>>

\* StoryCluster(0) is constructed in a process with some hash seed
CallStoryCluster ==
  /\ pc = "idle"
  /\ \E h \in HashSeeds : hash_seed' = h
  /\ story_cluster' = StoryCluster(0)
  /\ news' = <<>>
  /\ op' = "StoryCluster"
  /\ pc' = "cluster"
  /\ run' = 1
  /\ UNCHANGED <<collected, stories, threshold, max_cluster_size, i, j, cluster,
                 clusters, assigned, result, raised, score_args, prev>>

\* add_story is called on the cluster with a story and its features
AddStoryStep ==
  /\ pc = "cluster"
  /\ Len(news) < MaxStories
  /\ \E s \in {x \in NewsCatalog : ~x.malformed} :
       /\ news' = Append(news, s)
       /\ story_cluster' = add_story(story_cluster, Len(news) + 1, ProcessedOf[s, hash_seed])
  /\ UNCHANGED <<collected, pc, op, stories, threshold, max_cluster_size, hash_seed,
                 i, j, cluster, clusters, assigned, result, raised, score_args,
                 run, prev>>

\* get_summary is called on the cluster
GetSummaryStep ==
  /\ pc = "cluster"
  /\ result' = get_summary(story_cluster, news, hash_seed)
  /\ pc' = "done"
  /\ UNCHANGED <<collected, story_cluster, op, stories, news, threshold,
                 max_cluster_size, hash_seed, i, j, cluster, clusters, assigned,
                 raised, score_args, run, prev>>

\* generate_graph_data is called on a story list
CallGenerateGraphData ==
  /\ pc = "idle"
  /\ \E sts \in ClusterStoryLists, thr \in Thresholds :
       /\ stories' = sts
       /\ threshold' = thr
       /\ result' = generate_graph_data(sts, thr)
  /\ op' = "generate_graph_data"
  /\ pc' = "done"
  /\ run' = 1
  /\ UNCHANGED <<collected, story_cluster, news, max_cluster_size, hash_seed, i, j,
                 cluster, clusters, assigned, raised, score_args, prev>>

\* similarity_threshold values handed to _find_relationships, in
\* hundredths; 0.1 is the score of a pair that shares nothing but the hour
RelationshipThresholds == {10, 30}

\* _find_relationships is called on the processed stories of a list
CallFindRelationships ==
  /\ pc = "idle"
  /\ \E lst \in {x \in NewsLists : \A k \in 1..Len(x) : ~x[k].malformed},
        thr \in RelationshipThresholds, h \in HashSeeds :
       LET found == _find_relationships(ProcessAll(lst, 1, h), thr)
       IN /\ news' = lst
          /\ threshold' = thr
          /\ hash_seed' = h
          /\ result' = found.relationships
          /\ raised' = found.raised
  /\ op' = "_find_relationships"
  /\ pc' = "done"
  /\ run' = 1
  /\ UNCHANGED <<collected, story_cluster, stories, max_cluster_size, i, j, cluster,
                 clusters, assigned, score_args, prev>>

\* identify_connections is called on a story list
CallIdentifyConnections ==
  /\ pc = "idle"
  /\ \E sts \in StoryLists :
       /\ stories' = sts
       /\ result' = identify_connections(sts)
  /\ op' = "identify_connections"
  /\ pc' = "done"
  /\ run' = 1
  /\ UNCHANGED <<collected, story_cluster, news, threshold, max_cluster_size, hash_seed, i, j, cluster,
                 clusters, assigned, raised, score_args, prev>>

\* find_related_stories is called in a process with some hash seed
CallFindRelatedStories ==
  /\ pc = "idle"
  /\ \E lst \in NewsLists, thr \in NewsThresholds, h \in HashSeeds :
       LET returned == find_related_stories(lst, thr, h)
       IN /\ news' = lst
          /\ threshold' = thr
          /\ hash_seed' = h
          /\ result' = returned.clusters
          /\ raised' = returned.raised
  /\ op' = "find_related_stories"
  /\ pc' = "done"
  /\ run' = 1
  /\ UNCHANGED <<collected, story_cluster, stories, max_cluster_size, i, j, cluster, clusters, assigned,
                 score_args, prev>>

\* find_related_stories is called again on the same arguments, in a process
\* with some hash seed
RerunFindRelatedStories ==
  /\ pc = "done"
  /\ op = "find_related_stories"
  /\ run = 1
  /\ ~raised
  /\ prev' = result
  /\ \E h \in HashSeeds :
       LET returned == find_related_stories(news, threshold, h)
       IN /\ hash_seed' = h
          /\ result' = returned.clusters
          /\ raised' = returned.raised
  /\ run' = 2
  /\ UNCHANGED <<collected, story_cluster, pc, op, stories, news, threshold, max_cluster_size, i, j,
                 cluster, clusters, assigned, score_args>>

Next ==
  \/ CallFindStoryClusters
  \/ RerunFindStoryClusters
  \/ SeedStep
  \/ ScanStep
  \/ FinishClusters
  \/ CallCalculateStorySimilarity
  \/ CallGeneralStorySimilarity
  \/ CallTemporalSimilarity
  \/ CallCollectStories
  \/ CallCalculateSimilarity
  \/ CallGenerateGraphData
  \/ CallFindRelationships
  \/ CallStoryCluster
  \/ AddStoryStep
  \/ GetSummaryStep
  \/ CallIdentifyConnections
  \/ CallFindRelatedStories
  \/ RerunFindRelatedStories

Spec == Init /\ [][Next]_vars

\* ---------------------------------------------------------------- claims
FindStoryClustersDone == op = "find_story_clusters" /\ pc = "done"
FindRelatedStoriesDone == op = "find_related_stories" /\ pc = "done"
ScoreDone == op = "calculate_story_similarity" /\ pc = "done"
GeneralScoreDone == op = "_calculate_story_similarity" /\ pc = "done"

\* the positions <<cluster, place>> of a list of clusters
Places(cs) == UNION {{<<c, p>> : p \in 1..Len(cs[c])} : c \in 1..Len(cs)}

\* how often story k occurs in a list of clusters of story indices
Occurs(cs, k) == Cardinality({x \in Places(cs) : cs[x[1]][x[2]] = k})

\* C1: the clusters returned by find_story_clusters partition the input by
\* story index: every index occurs in exactly one cluster, exactly once, and
\* no cluster is empty or holds anything but an input index.
C1_Partition ==
  FindStoryClustersDone =>
    /\ \A k \in 1..Len(stories) : Occurs(result, k) = 1
    /\ \A x \in Places(result) : result[x[1]][x[2]] \in 1..Len(stories)
    /\ \A c \in 1..Len(result) : result[c] # <<>>

C1_Witness ==
  /\ FindStoryClustersDone
  /\ Len(stories) = 3
  /\ Len(result) = 2
  /\ \E c \in 1..Len(result) : Len(result[c]) = 2

\* C2: no cluster returned by find_story_clusters has more than
\* max_cluster_size members, whatever max_cluster_size was configured.
C2_SizeBound ==
  FindStoryClustersDone =>
    \A c \in 1..Len(result) : Len(result[c]) <= max_cluster_size

\* the number of entity types on which two stories share an entity
SharedDimensions(a, b) ==
  Cardinality({ty \in SeqToSet(EntityTypes) :
                 EntitiesGet(EntitiesOf[a], ty) \cap EntitiesGet(EntitiesOf[b], ty) # {}})

\* the word overlap of two stories is below one half
OverlapBelowHalf(a, b) ==
  2 * Cardinality(WordSet(StoryText(a)) \cap WordSet(StoryText(b)))
    < Max(Cardinality(WordSet(StoryText(a)) \cup WordSet(StoryText(b))), 1)

Incoherent(a, b) == SharedDimensions(a, b) < 2 /\ OverlapBelowHalf(a, b)

\* every member of the cluster passes the coherence gate against the seed
SeedCoherent(c) == \A p \in 2..Len(c) : ~Incoherent(stories[c[1]], stories[c[p]])

\* C3: in the entity/regex mode a pair with fewer than 2 entity types of
\* non-empty intersection and a word overlap below 0.5 scores exactly 0, and
\* at a threshold above 0 no seed comparison puts such a pair in one cluster.
C3_CoherenceGate ==
  /\ (ScoreDone /\ Incoherent(score_args[1], score_args[2])) => REq(result, RZero)
  /\ (op = "find_story_clusters" /\ threshold > 0) =>
       /\ SeedCoherent(cluster)
       /\ \A c \in 1..Len(clusters) : SeedCoherent(clusters[c])
       /\ pc = "done" => \A c \in 1..Len(result) : SeedCoherent(result[c])

C3_Witness ==
  /\ ScoreDone
  /\ SharedDimensions(score_args[1], score_args[2]) = 1
  /\ OverlapBelowHalf(score_args[1], score_args[2])
  /\ WordSet(StoryText(score_args[1])) \cap WordSet(StoryText(score_args[2])) # {}
  /\ REq(result, RZero)

\* the processed stories of the run of find_related_stories
Processed == ProcessAll(news, 1, hash_seed)

\* two processed stories score at least the threshold
Related(ps, a, b) ==
  /\ a # b
  /\ RGeq(_calculate_story_similarity(ps[Min(a, b)], ps[Max(a, b)]), Pct(threshold))

\* for every processed story the stories it is related to
RelatedTo(ps) == [a \in 1..Len(ps) |-> {b \in 1..Len(ps) : Related(ps, a, b)}]

\* the processed stories reachable from those of S over related pairs
RECURSIVE ReachableFrom(_, _)
ReachableFrom(rel, S) ==
  LET T == S \cup UNION {rel[a] : a \in S}
  IN IF T = S THEN S ELSE ReachableFrom(rel, T)

\* the input indices of the members of a returned StoryCluster
MemberSet(c) == {c.stories[p].story : p \in 1..Len(c.stories)}

InOneCluster(x, y) == \E c \in 1..Len(result) : {x, y} \subseteq MemberSet(result[c])

\* C4: find_related_stories puts two processed stories in one cluster if and
\* only if a chain of pairs scoring at least the threshold connects them.
C4_ConnectedComponents ==
  (FindRelatedStoriesDone /\ ~raised) =>
    LET ps == Processed
        rel == RelatedTo(ps)
    IN \A a \in 1..Len(ps) :
         LET reached == ReachableFrom(rel, {a})
         IN \A b \in 1..Len(ps) :
              InOneCluster(ps[a].story, ps[b].story) <=> b \in reached

C4_Witness ==
  /\ FindRelatedStoriesDone
  /\ ~raised
  /\ Len(news) = 3
  /\ LET ps == Processed
     IN /\ Len(ps) = 3
        /\ \E a \in 1..3, b \in 1..3 :
             /\ a # b
             /\ ~Related(ps, a, b)
             /\ InOneCluster(ps[a].story, ps[b].story)

\* C5: a story whose feature extraction raises in find_related_stories still
\* ends up in exactly one returned cluster; no input story is missing.
C5_FailedStoryKept ==
  (FindRelatedStoriesDone /\ ~raised) =>
    \A k \in 1..Len(news) :
      Cardinality({c \in 1..Len(result) : k \in MemberSet(result[c])}) = 1

\* the members of the returned clusters, cluster by cluster, in order
MemberLists(cs) ==
  [c \in 1..Len(cs) |-> [p \in 1..Len(cs[c].stories) |-> cs[c].stories[p].story]]

\* C6: two runs of the engine on the same ordered story list with the same
\* configuration return the same clusters, same members in the same order.
C6_Deterministic ==
  /\ (FindStoryClustersDone /\ run = 2) => result = prev
  /\ (FindRelatedStoriesDone /\ run = 2 /\ ~raised) =>
       MemberLists(result) = MemberLists(prev)

\* C7: the pair score is symmetric in both modes: score(A, B) = score(B, A).
C7_Symmetric ==
  /\ ScoreDone =>
       REq(result, calculate_story_similarity(score_args[2], score_args[1]))
  /\ GeneralScoreDone =>
       REq(result, _calculate_story_similarity(score_args[2], score_args[1]))

C7_Witness ==
  /\ ScoreDone
  /\ score_args[1] # score_args[2]
  /\ RLess(RZero, result)
  /\ \E ty \in SeqToSet(EntityTypes) :
       /\ EntitiesGet(EntitiesOf[score_args[1]], ty) \cap EntitiesGet(EntitiesOf[score_args[2]], ty) # {}
       /\ Cardinality(EntitiesGet(EntitiesOf[score_args[1]], ty))
            # Cardinality(EntitiesGet(EntitiesOf[score_args[2]], ty))

\* a story is scored against itself and its text yields at least one word
SelfScored ==
  /\ ScoreDone
  /\ score_args[1] = score_args[2]
  /\ WordSet(StoryText(score_args[1])) # {}

\* C8 as stated: for a story whose text yields at least one word, score(A, A)
\* is at least every threshold in [0, 1].
C8_SelfSimilarityAnyThreshold ==
  SelfScored => \A t \in 0..100 : RGeq(result, Pct(t))

\* C8 amended: for a story whose text yields at least one word, score(A, A)
\* is 1 when the story has an extracted entity and 0.3 when it has none, so
\* it is at least every threshold up to 0.3, and at least every threshold in
\* [0, 1] when the story has an entity.
C8_SelfSimilarity ==
  SelfScored =>
    /\ DOMAIN EntitiesOf[score_args[1]] # {} => REq(result, ROne)
    /\ DOMAIN EntitiesOf[score_args[1]] = {} => REq(result, <<3, 10>>)
    /\ \A t \in 0..100 :
         (t <= 30 \/ DOMAIN EntitiesOf[score_args[1]] # {}) => RGeq(result, Pct(t))

C8_Witness ==
  /\ SelfScored
  /\ DOMAIN EntitiesOf[score_args[1]] = {}
  /\ REq(result, <<3, 10>>)

Holders(ty, e) ==
  {k \in 1..Len(stories) : e \in EntitiesGet(EntitiesOf[stories[k]], ty)}

Retained(ty, e) == ty \in DOMAIN result /\ e \in DOMAIN result[ty]

\* every normalized entity of type ty extracted from a story of the catalogue
EntitiesOfType(ty) == UNION {EntitiesGet(EntitiesOf[s], ty) : s \in StoryCatalog}

\* C10: identify_connections retains an entity of a type if and only if it
\* is extracted from at least 2 input stories; the recorded count is the
\* number of stories listed, which are those stories, each listed once.
C10_ConnectionIndex ==
  (op = "identify_connections" /\ pc = "done") =>
    /\ \A ty \in SeqToSet(EntityTypes) : \A e \in EntitiesOfType(ty) :
         Retained(ty, e) <=> Cardinality(Holders(ty, e)) >= 2
    /\ \A ty \in DOMAIN result : \A e \in DOMAIN result[ty] :
         /\ e \in EntitiesOfType(ty)
         /\ result[ty][e].count = Len(result[ty][e].stories)
         /\ result[ty][e].count = Cardinality(Holders(ty, e))
         /\ SeqToSet(result[ty][e].stories) = Holders(ty, e)

C10_Witness ==
  /\ op = "identify_connections"
  /\ pc = "done"
  /\ \E ty \in DOMAIN result : \E e \in DOMAIN result[ty] : result[ty][e].count = 2
  /\ \E ty \in SeqToSet(EntityTypes) : \E e \in EntitiesOfType(ty) :
       Cardinality(Holders(ty, e)) = 1 /\ ~Retained(ty, e)

\* C11: a threshold outside [0, 1] or a non-positive max cluster size is
\* rejected with an error before any story is scored or assigned: the call
\* raises and no story is ever put in a cluster (stated for a call with at
\* least one story).
C11_ConfigRejected ==
  (/\ op = "find_story_clusters"
   /\ stories # <<>>
   /\ (max_cluster_size <= 0 \/ threshold \notin 0..100)) =>
    /\ assigned = {}
    /\ clusters = <<>>
    /\ pc = "done" => (raised /\ result = <<>>)

\* the pair relation "score >= threshold" of the entity/regex mode over the
\* stories of the call, as the (i, j, similarity) list _create_clusters takes
RECURSIVE PairRelationships(_, _, _, _)
PairRelationships(sts, thr, a, b) ==
  IF a > Len(sts) THEN <<>>
  ELSE IF b > Len(sts) THEN PairRelationships(sts, thr, a + 1, a + 2)
  ELSE (IF RGeq(SimilarityOf[sts[a], sts[b]], Pct(thr))
        THEN << <<a, b, SimilarityOf[sts[a], sts[b]]>> >>
        ELSE <<>>)
       \o PairRelationships(sts, thr, a, b + 1)

\* the stories of the call as entries of processed_stories without features
FeaturelessEntries(sts) ==
  [k \in 1..Len(sts) |->
     [story |-> k, data |-> [entities |-> <<>>, keywords |-> <<>>]]]

\* the partition the connected-components policy makes of the stories of the
\* call under the pair relation of the entity/regex mode
ComponentPartition ==
  LET cs == _create_clusters(FeaturelessEntries(stories),
                             PairRelationships(stories, threshold, 1, 2))
  IN {MemberSet(cs[c]) : c \in 1..Len(cs)}

\* the partition the seeded-growth policy returned
SeededPartition == {SeqToSet(result[c]) : c \in 1..Len(result)}

\* the pair relation of the call is transitive
TransitiveRelation ==
  \A a \in 1..Len(stories), b \in 1..Len(stories), c \in 1..Len(stories) :
    (/\ a # b /\ b # c /\ a # c
     /\ RGeq(SimilarityOf[stories[a], stories[b]], Pct(threshold))
     /\ RGeq(SimilarityOf[stories[b], stories[c]], Pct(threshold)))
    => RGeq(SimilarityOf[stories[a], stories[c]], Pct(threshold))

\* the size cap of the call never stops the growth of a cluster
UnboundedSize == max_cluster_size >= Len(stories)

\* C12: with a max cluster size that never binds and the same pair relation
\* "score >= threshold", seeded growth and connected components make the
\* same partition of the stories whenever the relation is transitive.
C12_PoliciesAgree ==
  (FindStoryClustersDone /\ stories # <<>> /\ UnboundedSize /\ TransitiveRelation) =>
    SeededPartition = ComponentPartition

C12_Witness ==
  /\ FindStoryClustersDone
  /\ Len(stories) = 3
  /\ UnboundedSize
  /\ threshold > 0
  /\ TransitiveRelation
  /\ Len(result) = 2
  /\ SeededPartition = ComponentPartition

\* the two policies differ: reachable when the relation is not transitive
C12_PoliciesDiffer ==
  /\ FindStoryClustersDone
  /\ UnboundedSize
  /\ ~TransitiveRelation
  /\ SeededPartition # ComponentPartition

\* a rational lies in [0, 1]
InUnitInterval(x) == RGeq(x, RZero) /\ RGeq(ROne, x)

\* the four components of the general-purpose score of the scored pair
GeneralComponents ==
  <<calculate_similarity(score_args[1].data.text_for_similarity,
                         score_args[2].data.text_for_similarity),
    _entity_similarity(score_args[1].data.entities, score_args[2].data.entities),
    _keyword_similarity(SeqToSet(score_args[1].data.keywords),
                        SeqToSet(score_args[2].data.keywords)),
    _temporal_similarity(score_args[1].published_date, score_args[2].published_date)>>

\* C13: the pair score is always within [0, 1]: in the entity/regex mode for
\* all pairs of stories, and in the general-purpose mode whenever its four
\* components are within [0, 1] (which they are).
C13_ScoreInUnitInterval ==
  /\ ScoreDone => InUnitInterval(result)
  /\ GeneralScoreDone =>
       /\ \A c \in 1..4 : InUnitInterval(GeneralComponents[c])
       /\ InUnitInterval(result)

C13_Witness ==
  /\ ScoreDone
  /\ score_args[1] # score_args[2]
  /\ DOMAIN EntitiesOf[score_args[1]] # {}
  /\ RLess(RZero, result)
  /\ RLess(<<7, 10>>, result)
  /\ InUnitInterval(result)

TemporalDone == op = "_temporal_similarity" /\ pc = "done"

\* the absolute difference of two dates
Apart(date1, date2) == IF date1 >= date2 THEN date1 - date2 ELSE date2 - date1

\* the scored pair of the general-purpose mode, published d seconds apart
ScoredApart(d) ==
  _calculate_story_similarity(
    [published_date |-> 0, data |-> score_args[1].data],
    [published_date |-> d, data |-> score_args[2].data])

\* C14: temporal proximity is 1.0 when the dates are less than 1 hour apart,
\* 0.5 from 1 hour to less than 24 hours, 0.2 from 24 hours to less than 7
\* days and 0.0 otherwise; it never increases as the difference grows, and a
\* pair 10 minutes apart scores strictly higher overall than the same pair
\* 10 days apart.
C14_TemporalStep ==
  /\ TemporalDone =>
       LET d == Apart(score_args[1], score_args[2])
       IN /\ d < 60 * 60 => result = <<1, 1>>
          /\ (60 * 60 <= d /\ d < 24 * 60 * 60) => result = <<1, 2>>
          /\ (24 * 60 * 60 <= d /\ d < 7 * 24 * 60 * 60) => result = <<1, 5>>
          /\ 7 * 24 * 60 * 60 <= d => result = <<0, 1>>
          /\ \A x \in TemporalDates, y \in TemporalDates :
               Apart(x, y) >= d => RGeq(result, _temporal_similarity(x, y))
  /\ GeneralScoreDone => RLess(ScoredApart(10 * 24 * 60 * 60), ScoredApart(10 * 60))

C14_Witness ==
  /\ TemporalDone
  /\ Apart(score_args[1], score_args[2]) = 60 * 60
  /\ score_args[1] < score_args[2]
  /\ result = <<1, 2>>

CollectStoriesDone == op = "collect_stories" /\ pc = "done"

\* the stories the collectors that did not raise returned
Produced ==
  UNION {SeqToSet(collected[c].stories) :
           c \in {x \in 1..Len(collected) : ~collected[x].raised}}

\* C15: the list returned by collect_stories holds no two stories of equal
\* url, holds one story for every distinct url the collectors returned, and
\* a collector that raises does not stop the stories of the others from
\* being returned.
C15_UniqueUrls ==
  CollectStoriesDone =>
    /\ ~raised
    /\ \A x \in 1..Len(result), y \in 1..Len(result) :
         x # y => result[x].url # result[y].url
    /\ {result[x].url : x \in 1..Len(result)} = {s.url : s \in Produced}
    /\ \A x \in 1..Len(result) : result[x] \in Produced

C15_Witness ==
  /\ CollectStoriesDone
  /\ collected[1].raised
  /\ Len(collected[2].stories) = 2
  /\ \E s \in SeqToSet(collected[2].stories), t \in SeqToSet(collected[3].stories) :
       s.url = t.url
  /\ Len(result) = 2

\* the word overlap of two stories is at most one half
OverlapAtMostHalf(a, b) ==
  2 * Cardinality(WordSet(StoryText(a)) \cap WordSet(StoryText(b)))
    <= Max(Cardinality(WordSet(StoryText(a)) \cup WordSet(StoryText(b))), 1)

\* C16: in the entity/regex mode a pair with fewer than 2 overlapping entity
\* types scores 0 unless its word overlap strictly exceeds 0.5; a pair with a
\* word overlap of exactly 0.5 scores 0.
C16_GateStrict ==
  (/\ ScoreDone
   /\ SharedDimensions(score_args[1], score_args[2]) < 2
   /\ OverlapAtMostHalf(score_args[1], score_args[2])) => REq(result, RZero)

\* the entity types for which both stories have a non-empty entity set
BothSidedTypes(a, b) ==
  SelectSeq(EntityTypes,
            LAMBDA ty : /\ EntitiesGet(EntitiesOf[a], ty) # {}
                        /\ EntitiesGet(EntitiesOf[b], ty) # {})

\* the mean of the Jaccard overlaps over those types, 0 when there is none
MeanOverBothSided(a, b) ==
  LET types == BothSidedTypes(a, b)
      overlaps == [k \in 1..Len(types) |->
                     <<Cardinality(EntitiesGet(EntitiesOf[a], types[k])
                                     \cap EntitiesGet(EntitiesOf[b], types[k])),
                       Cardinality(EntitiesGet(EntitiesOf[a], types[k])
                                     \cup EntitiesGet(EntitiesOf[b], types[k]))>>]
  IN IF types = <<>> THEN RZero ELSE RMul(RSum(overlaps), <<1, Len(types)>>)

\* the word overlap of two stories as a rational
OverlapOf(a, b) ==
  <<Cardinality(WordSet(StoryText(a)) \cap WordSet(StoryText(b))),
    Max(Cardinality(WordSet(StoryText(a)) \cup WordSet(StoryText(b))), 1)>>

\* C17: in the entity/regex mode, when the coherence gate is open, the score
\* is 0.7 x the mean of the per-type Jaccard overlaps taken over every entity
\* type for which both stories have a non-empty entity set, plus 0.3 x the
\* word overlap.
C17_MeanOverBothSided ==
  (ScoreDone /\ ~Incoherent(score_args[1], score_args[2])) =>
    REq(result,
        RAdd(RMul(MeanOverBothSided(score_args[1], score_args[2]), <<7, 10>>),
             RMul(OverlapOf(score_args[1], score_args[2]), <<3, 10>>)))

\* the case-folded entities of a processed story, flattened across the types
FlatEntities(data) ==
  UNION {{LowerSeq(e) : e \in data.entities[ty]} : ty \in DOMAIN data.entities}

\* the Jaccard similarity of two sets, 0 when either is empty
JaccardOrZero(A, B) ==
  IF A = {} \/ B = {} THEN RZero
  ELSE <<Cardinality(A \cap B), Cardinality(A \cup B)>>

\* C18: the general-purpose score is 0.4 x lexical + 0.3 x entity + 0.2 x
\* keyword + 0.1 x temporal, the entity component being the Jaccard
\* similarity of the case-folded entity sets flattened across the types and
\* the keyword component that of the keyword sets, each 0 when a side is
\* empty.
C18_WeightedSum ==
  GeneralScoreDone =>
    REq(result,
        RAdd(RAdd(RMul(<<4, 10>>, GeneralComponents[1]),
                  RMul(<<3, 10>>, JaccardOrZero(FlatEntities(score_args[1].data),
                                                FlatEntities(score_args[2].data)))),
             RAdd(RMul(<<2, 10>>, JaccardOrZero(SeqToSet(score_args[1].data.keywords),
                                                SeqToSet(score_args[2].data.keywords))),
                  RMul(<<1, 10>>, GeneralComponents[4]))))

C18_Witness ==
  /\ GeneralScoreDone
  /\ FlatEntities(score_args[1].data) # FlatEntities(score_args[2].data)
  /\ FlatEntities(score_args[1].data) \cap FlatEntities(score_args[2].data) # {}
  /\ SeqToSet(score_args[1].data.keywords) \cap SeqToSet(score_args[2].data.keywords) # {}
  /\ score_args[1].published_date # score_args[2].published_date

\* the smallest input index among the members of a returned StoryCluster:
\* the story from which the search of its component started
FirstMember(c) == CHOOSE x \in MemberSet(c) : \A y \in MemberSet(c) : x <= y

\* C19: the cluster lists returned by find_story_clusters and by
\* _create_clusters are ordered by non-increasing cluster size, a split by
\* the post-pass included; clusters of equal size keep the order in which
\* their seeds appear in the input.
C19_SortedBySize ==
  /\ FindStoryClustersDone =>
       \A c \in 1..Len(result), d \in 1..Len(result) :
         c < d => /\ Len(result[c]) >= Len(result[d])
                  /\ Len(result[c]) = Len(result[d]) => result[c][1] < result[d][1]
  /\ (FindRelatedStoriesDone /\ ~raised) =>
       \A c \in 1..Len(result), d \in 1..Len(result) :
         c < d => /\ Len(result[c].stories) >= Len(result[d].stories)
                  /\ Len(result[c].stories) = Len(result[d].stories)
                       => FirstMember(result[c]) < FirstMember(result[d])

C19_Witness ==
  /\ FindStoryClustersDone
  /\ Len(stories) = 3
  /\ Len(result) = 2
  /\ Len(result[1]) = 2
  /\ result[1][1] > result[2][1]

\* the fragments the post-pass makes of the sorted cluster at position c
Fragments(c) ==
  _split_large_cluster(stories, clusters[c], threshold + 10, max_cluster_size)

\* C20: a cluster with more than max_size members handed to the post-pass
\* split comes back as fragments of at most max_size members each, which
\* together hold exactly the members of the cluster, each once.
C20_SplitWithinBound ==
  FindStoryClustersDone =>
    \A c \in 1..Len(clusters) :
      Len(clusters[c]) > max_cluster_size =>
        /\ \A f \in 1..Len(Fragments(c)) : Len(Fragments(c)[f]) <= max_cluster_size
        /\ \A k \in SeqToSet(clusters[c]) : Occurs(Fragments(c), k) = 1
        /\ \A x \in Places(Fragments(c)) :
             Fragments(c)[x[1]][x[2]] \in SeqToSet(clusters[c])

\* a run of find_story_clusters is inside its loops
FindStoryClustersRunning == op = "find_story_clusters" /\ pc \in {"seed", "scan"}

\* the seeds of the clusters (appended or being grown) that hold story k
Homes(k) ==
  {c[1] : c \in {x \in SeqToSet(clusters) \cup (IF pc = "scan" THEN {cluster} ELSE {}) :
                   k \in SeqToSet(x)}}

\* C21: during one run of find_story_clusters the assigned set only grows, an
\* assigned story is in exactly one cluster and stays in it, a story already
\* assigned that the scan meets is neither scored nor appended, and at the
\* end of the run every story is assigned.
C21_AssignedOnce ==
  [][FindStoryClustersRunning =>
       /\ assigned \subseteq assigned'
       /\ \A k \in assigned : Homes(k)' = Homes(k)
       /\ \A k \in assigned' : Cardinality(Homes(k)') = 1
       /\ (pc = "scan" /\ j <= Len(stories) /\ j \in assigned) =>
            (cluster' = cluster /\ assigned' = assigned)
       /\ pc' = "done" => assigned' = 1..Len(stories)]_vars

C21_Witness ==
  /\ op = "find_story_clusters"
  /\ pc = "scan"
  /\ j <= Len(stories)
  /\ j \in assigned
  /\ Len(cluster) < max_cluster_size

\* the first 10 distinct candidates of a text, in order of appearance, of the
\* organisations (org = TRUE) or of the persons (org = FALSE)
FirstTen(text, org) ==
  LET words == CapitalizedPhrases(text, 1)
      mine == SelectSeq(words,
                LAMBDA w : IF org THEN \E k \in 1..Len(w) : w[k] \in OrgKeywordTokens
                           ELSE /\ ~(\E k \in 1..Len(w) : w[k] \in OrgKeywordTokens)
                                /\ WordCount(w) <= 3)
      distinct == Distinct(mine)
  IN SubSeq(distinct, 1, Min(10, Len(distinct)))

\* C22: the fallback entity extractor returns, per entity type, the first 10
\* distinct candidates in order of appearance in the text, the same on every
\* run (stated on the entities retained, whatever their order in the list).
C22_FirstTenInOrder ==
  GeneralScoreDone =>
    \A a \in 1..2 :
      /\ EntitiesGet(score_args[a].data.entities, "PERSON")
           = SeqToSet(FirstTen(score_args[a].data.text_for_similarity, FALSE))
      /\ EntitiesGet(score_args[a].data.entities, "ORG")
           = SeqToSet(FirstTen(score_args[a].data.text_for_similarity, TRUE))

\* the features of the stories added to the cluster so far
AddedData == [k \in 1..Len(news) |-> ProcessedOf[news[k], hash_seed]]

\* C23: after any sequence of add_story calls shared_entities[t] is the union
\* of the added stories' entities of type t, shared_keywords the union of
\* their keywords, and stories holds the added stories in insertion order;
\* get_summary (on a cluster with a story) reports story_count equal to the
\* number of added stories, at most 5 entities per type and at most 10
\* shared keywords.
C23_ClusterAggregates ==
  op = "StoryCluster" =>
    LET added == AddedData
    IN /\ Len(story_cluster.stories) = Len(news)
       /\ \A k \in 1..Len(news) :
            /\ story_cluster.stories[k].story = k
            /\ story_cluster.stories[k].data = added[k]
       /\ \A ty \in {"PERSON", "ORG"} :
            EntitiesGet(story_cluster.shared_entities, ty)
              = UNION {EntitiesGet(added[k].entities, ty) : k \in 1..Len(news)}
       /\ story_cluster.shared_keywords
            = UNION {SeqToSet(added[k].keywords) : k \in 1..Len(news)}
       /\ (pc = "done" /\ news # <<>>) =>
            /\ result.story_count = Len(news)
            /\ \A ty \in DOMAIN result.shared_entities :
                 /\ Cardinality(result.shared_entities[ty]) <= 5
                 /\ result.shared_entities[ty] \subseteq story_cluster.shared_entities[ty]
            /\ Cardinality(result.shared_keywords) <= 10
            /\ result.shared_keywords \subseteq story_cluster.shared_keywords

C23_Witness ==
  /\ op = "StoryCluster"
  /\ pc = "done"
  /\ Len(news) = 2
  /\ news[1] # news[2]
  /\ Cardinality(story_cluster.shared_keywords) > 10
  /\ Cardinality(result.shared_keywords) = 10
  /\ \E ty \in DOMAIN result.shared_entities :
       /\ Cardinality(story_cluster.shared_entities[ty]) > 5
       /\ Cardinality(result.shared_entities[ty]) = 5

CalculateSimilarityDone == op = "calculate_similarity" /\ pc = "done"

\* the lower-cased words of three letters or more of a text
LowerWordSet(text) ==
  {Lower(text[k]) : k \in {x \in 1..Len(text) : Lower(text[x]) \notin NonWordTokens}}

\* C24: when the vectorization raises inside calculate_similarity the error
\* is not propagated: the result is the Jaccard similarity of the lower-case
\* word sets of the two texts, 0 when either word set is empty; when either
\* text is empty the result is 0.
C24_FallbackJaccard ==
  CalculateSimilarityDone =>
    LET words1 == LowerWordSet(score_args[1])
        words2 == LowerWordSet(score_args[2])
    IN /\ ~raised
       /\ (score_args[1] = <<>> \/ score_args[2] = <<>>) => REq(result, RZero)
       /\ (words1 = {} \/ words2 = {}) => REq(result, RZero)
       /\ (words1 # {} /\ words2 # {}) =>
            REq(result, <<Cardinality(words1 \cap words2), Cardinality(words1 \cup words2)>>)

C24_Witness ==
  /\ CalculateSimilarityDone
  /\ score_args[1] # <<>>
  /\ score_args[2] # <<>>
  /\ LowerWordSet(score_args[1]) # LowerWordSet(score_args[2])
  /\ Cardinality(LowerWordSet(score_args[1])) # Cardinality(LowerWordSet(score_args[2]))
  /\ RLess(RZero, result)
  /\ RLess(result, ROne)

FindRelationshipsDone == op = "_find_relationships" /\ pc = "done"
GenerateGraphDataDone == op = "generate_graph_data" /\ pc = "done"

\* the pairs of the stories of the call with the first index below the second
UnorderedPairs(n) == {p \in (1..n) \X (1..n) : p[1] < p[2]}

\* C25: _find_relationships returns exactly the triples (a, b, score) of the
\* pairs a < b of processed stories whose score is at least the threshold
\* (an equal score is kept), every pair at most once; generate_graph_data
\* produces as edges the same set of pairs for the entity/regex score.
C25_RelationshipsExact ==
  /\ FindRelationshipsDone =>
       LET ps == Processed
           kept == {p \in UnorderedPairs(Len(ps)) :
                      RGeq(_calculate_story_similarity(ps[p[1]], ps[p[2]]), Pct(threshold))}
       IN /\ ~raised
          /\ Len(result) = Cardinality(kept)
          /\ {<<result[k][1], result[k][2]>> : k \in 1..Len(result)} = kept
          /\ \A k \in 1..Len(result) :
               REq(result[k][3],
                   _calculate_story_similarity(ps[result[k][1]], ps[result[k][2]]))
  /\ GenerateGraphDataDone =>
       LET kept == {p \in UnorderedPairs(Len(stories)) :
                      RGeq(SimilarityOf[stories[p[1]], stories[p[2]]], Pct(threshold))}
       IN /\ Len(result.edges) = Cardinality(kept)
          /\ {<<result.edges[k].from, result.edges[k].to>> : k \in 1..Len(result.edges)} = kept

C25_Witness ==
  /\ FindRelationshipsDone
  /\ Len(news) = 3
  /\ Len(result) >= 2
  /\ \E k \in 1..Len(result) : REq(result[k][3], Pct(threshold))

\* the score of stories a and b of the call reaches the threshold
Similar(a, b) == RGeq(SimilarityOf[stories[a], stories[b]], Pct(threshold))

\* C26: in every cluster find_story_clusters returns the first member (the
\* seed) has the lowest input index, the members are in increasing index
\* order and every other member scores at least the threshold against the
\* seed; the members are not compared with each other.
C26_SeedAnchored ==
  FindStoryClustersDone =>
    \A c \in 1..Len(result) :
      /\ result[c] # <<>>
      /\ \A p \in 2..Len(result[c]) :
           /\ result[c][p - 1] < result[c][p]
           /\ Similar(result[c][1], result[c][p])

\* two members of a returned cluster that are not its seed score below the
\* threshold against each other
C26_Witness ==
  /\ FindStoryClustersDone
  /\ \E c \in 1..Len(result) :
       /\ Len(result[c]) >= 3
       /\ ~Similar(result[c][2], result[c][3])

\* the stories after the seed of returned cluster c that score at least the
\* threshold against the seed and are members of another returned cluster
LeftOut(c) ==
  {k \in 1..Len(stories) :
     /\ k > result[c][1]
     /\ Similar(result[c][1], k)
     /\ k \notin SeqToSet(result[c])}

\* the seed of the returned cluster story k is a member of
SeedOf(k) == result[CHOOSE c \in 1..Len(result) : k \in SeqToSet(result[c])][1]

\* C27: seeded growth is maximal with respect to its seed: for every
\* returned cluster with fewer than max_cluster_size members and seed s, no
\* story after s that scores at least the threshold against s is a member
\* of a cluster whose seed comes after s.
C27_SeedMaximal ==
  FindStoryClustersDone =>
    \A c \in 1..Len(result) :
      Len(result[c]) < max_cluster_size =>
        \A k \in LeftOut(c) : SeedOf(k) < result[c][1]

C27_Witness ==
  /\ FindStoryClustersDone
  /\ \E c \in 1..Len(result) :
       /\ Len(result[c]) < max_cluster_size
       /\ LeftOut(c) # {}

\* the post-pass of the finished call hands a cluster to _split_large_cluster
SplitInvoked == \E c \in 1..Len(clusters) : Len(clusters[c]) > max_cluster_size

\* C28: for every max_cluster_size >= 1 the growth loop never makes a
\* cluster of more than max_cluster_size members, so _split_large_cluster
\* is not invoked and the result is exactly the growth clusters sorted by
\* size; for max_cluster_size <= 0 the split is invoked and returns
\* fragments of one member, which still exceed the bound.
C28_SplitUnreachable ==
  /\ (op = "find_story_clusters" /\ pc = "scan" /\ max_cluster_size >= 1) =>
       Len(cluster) <= max_cluster_size
  /\ (FindStoryClustersDone /\ stories # <<>>) =>
       IF max_cluster_size >= 1
       THEN /\ ~SplitInvoked
            /\ result = clusters
            /\ \A c \in 2..Len(result) : Len(result[c - 1]) >= Len(result[c])
       ELSE /\ SplitInvoked
            /\ \A c \in 1..Len(clusters) :
                 \A f \in SeqToSet(_split_large_cluster(stories, clusters[c],
                                                        threshold + SplitOffset,
                                                        max_cluster_size)) :
                   Len(f) = 1 /\ Len(f) > max_cluster_size
            /\ \A c \in 1..Len(result) : Len(result[c]) = 1

\* the size limit stopped the growth of a cluster that a later story would
\* have joined
C28_Witness ==
  /\ FindStoryClustersDone
  /\ max_cluster_size >= 2
  /\ \E c \in 1..Len(result) :
       /\ Len(result[c]) = max_cluster_size
       /\ \E k \in 1..Len(stories) :
            /\ k > result[c][Len(result[c])]
            /\ Similar(result[c][1], k)
            /\ SeedOf(k) > result[c][1]

\* for every story of the call the stories an edge of the graph joins it to
EdgeNeighbors(edges) ==
  [a \in 1..Len(stories) |->
     {b \in 1..Len(stories) :
        \E e \in 1..Len(edges) :
          {edges[e].from, edges[e].to} = {a, b} /\ a # b}]

\* C29: the partition find_story_clusters returns refines the connected
\* components of the edge graph generate_graph_data builds from the same
\* stories and threshold: every member of a cluster is joined to its seed by
\* an edge, so all the members of a cluster are in one component.
C29_RefinesComponents ==
  (FindStoryClustersDone /\ stories # <<>>) =>
    LET edges == generate_graph_data(stories, threshold).edges
        rel == EdgeNeighbors(edges)
    IN \A c \in 1..Len(result) :
         /\ \A p \in 2..Len(result[c]) : result[c][p] \in rel[result[c][1]]
         /\ SeqToSet(result[c]) \subseteq ReachableFrom(rel, {result[c][1]})

\* a component of the edge graph holds two returned clusters, one of them
\* with several members
C29_Witness ==
  /\ FindStoryClustersDone
  /\ stories # <<>>
  /\ \E c \in 1..Len(result), d \in 1..Len(result) :
       /\ c # d
       /\ Len(result[c]) >= 2
       /\ result[d][1] \in
            ReachableFrom(EdgeNeighbors(generate_graph_data(stories, threshold).edges),
                          {result[c][1]})

\* the two stories have the same, non-empty set of words
SameWords(a, b) ==
  /\ WordSet(StoryText(a)) = WordSet(StoryText(b))
  /\ WordSet(StoryText(a)) # {}

\* a pair without an entity type of non-empty intersection scores 0 when its
\* word overlap is below 0.5 and 0.3 x the overlap otherwise, at most 0.3
NoSharedTypeScore ==
  (ScoreDone /\ SharedDimensions(score_args[1], score_args[2]) = 0) =>
    /\ OverlapBelowHalf(score_args[1], score_args[2]) => REq(result, RZero)
    /\ ~OverlapBelowHalf(score_args[1], score_args[2]) =>
         REq(result, RMul(<<3, 10>>, OverlapOf(score_args[1], score_args[2])))
    /\ RGeq(<<3, 10>>, result)

\* C30 as stated: such a pair never scores above 0.3, and at the default
\* threshold 0.3 two stories without an entity type of non-empty
\* intersection are in one cluster only when their word sets are identical
\* and non-empty.
C30_NoSharedTypeClustered ==
  /\ NoSharedTypeScore
  /\ (FindStoryClustersDone /\ threshold = 30) =>
       \A c \in 1..Len(result) :
         \A p \in 1..Len(result[c]), q \in 1..Len(result[c]) :
           (p < q /\ SharedDimensions(stories[result[c][p]], stories[result[c][q]]) = 0)
             => SameWords(stories[result[c][p]], stories[result[c][q]])

\* C30 (amended): such a pair never scores above 0.3, and at the default
\* threshold 0.3 a story joins the cluster of a seed it shares no entity
\* type of non-empty intersection with only when their word sets are
\* identical and non-empty.
C30_NoSharedTypeSeed ==
  /\ NoSharedTypeScore
  /\ (FindStoryClustersDone /\ threshold = 30) =>
       \A c \in 1..Len(result) :
         \A p \in 2..Len(result[c]) :
           SharedDimensions(stories[result[c][1]], stories[result[c][p]]) = 0
             => SameWords(stories[result[c][1]], stories[result[c][p]])

C30_Witness ==
  /\ FindStoryClustersDone
  /\ threshold = 30
  /\ \E c \in 1..Len(result) :
       /\ Len(result[c]) >= 2
       /\ SharedDimensions(stories[result[c][1]], stories[result[c][2]]) = 0

====
